---- MODULE Spec2Model ----
(***************************************************************************)
(* Model of the cld3 language-identification gateway: the LRU cache, the   *)
(* cache-key construction, the detector lifecycle and the /classify,       *)
(* /ready and /health handlers.  Two entry files exist in the repository:  *)
(* src/server.js (digest cache key, input truncation) and                  *)
(* src/unnamed/part_000 (exact cache key, no truncation).  The variable    *)
(* build says which of the two is running.                                 *)
(*                                                                         *)
(* Strings are sequences of UTF-16 code units (naturals).                  *)
(***************************************************************************)
EXTENDS Integers, Sequences, FiniteSets, TLC

VARIABLES
    build,            \* which entry file runs: "server" or "part_000"
    CACHE_MAX,        \* configuration, fixed after start
    MIN_LEN,
    MAX_INPUT_CHARS,
    cache,            \* LRU.map: sequence of [key, val] in Map insertion order
    identifier,       \* the detector handle: "null" or "handle"
    pc,               \* position of the entry module's top-level code
    last,             \* outcome of the last HTTP request
    shutdownLog,      \* what the shutdown path has done so far, in order
    origin,           \* ghost: the request each cached entry was computed for
    op,               \* outcome of the last direct LRU call (unit level)
    recency           \* ghost of the unit-level LRU: keys by time of last
                      \* access, oldest first

vars == <<build, CACHE_MAX, MIN_LEN, MAX_INPUT_CHARS, cache, identifier, pc,
          last, shutdownLog, origin, op, recency>>

-----------------------------------------------------------------------------
(* Bounds *)

MaxCap == 2           \* largest capacity of the LRU exercised as a unit
NumKeys == 3          \* keys used on the LRU exercised as a unit
MaxCacheMax == 1      \* largest CACHE_MAX of the running service
MaxMinLen == 2        \* the MIN_LEN that switches the fast-fail on
MaxInputChars == 3    \* MAX_INPUT_CHARS
MaxTopN == 2          \* largest topN requested (the schema allows up to 10)
MaxSignals == 2       \* termination signals delivered to one process

-----------------------------------------------------------------------------
(* Characters *)

NUL == 0
SP == 32
COLON == 58
ZERO == 48
CH_a == 97

Min(a, b) == IF a < b THEN a ELSE b

-----------------------------------------------------------------------------
(* JavaScript Map, as LRU uses it: iteration order is insertion order *)

UNDEFINED == [undefined |-> TRUE]

MapKeys(m) == {m[i].key : i \in 1..Len(m)}

MapHas(m, key) == key \in MapKeys(m)

MapGet(m, key) ==
    IF MapHas(m, key)
    THEN (CHOOSE e \in {m[i] : i \in 1..Len(m)} : e.key = key).val
    ELSE UNDEFINED

MapDelete(m, key) == SelectSeq(m, LAMBDA e : e.key # key)

\* Map.prototype.set keeps the position of a key that is already present
MapSet(m, key, val) ==
    IF MapHas(m, key)
    THEN [i \in 1..Len(m) |->
             IF m[i].key = key THEN [key |-> key, val |-> val] ELSE m[i]]
    ELSE Append(m, [key |-> key, val |-> val])

-----------------------------------------------------------------------------
(* class LRU *)

\* mutant: get returns the value without moving the entry to the recent end
LRU_get_NoPromote(m, key) == [map |-> m, ret |-> MapGet(m, key)]

\* mutant: the entry is re-inserted before the test for undefined
LRU_get_InsertOnMiss(m, key) ==
    LET v == MapGet(m, key) IN
    [map |-> MapSet(MapDelete(m, key), key, v), ret |-> v]

LRU_get(m, key) ==
    LET v == MapGet(m, key) IN
    IF v = UNDEFINED
    THEN [map |-> m, ret |-> UNDEFINED]
    ELSE [map |-> MapSet(MapDelete(m, key), key, v), ret |-> v]

\* mutant: a non-positive max means "no limit" instead of "disabled"
LRU_set_ZeroUnlimited(max, m, key, val) ==
    LET m1 == IF MapHas(m, key) THEN MapDelete(m, key) ELSE m
        m2 == MapSet(m1, key, val)
    IN  IF max > 0 /\ Len(m2) > max THEN MapDelete(m2, m2[1].key) ELSE m2

\* mutant: the overflow test is off by one
LRU_set_OffByOne(max, m, key, val) ==
    IF max <= 0 THEN m
    ELSE LET m1 == IF MapHas(m, key) THEN MapDelete(m, key) ELSE m
             m2 == MapSet(m1, key, val)
         IN  IF Len(m2) > max + 1 THEN MapDelete(m2, m2[1].key) ELSE m2

\* mutant: on overflow the entry just inserted is dropped, not the oldest
LRU_set_EvictNewest(max, m, key, val) ==
    IF max <= 0 THEN m
    ELSE LET m1 == IF MapHas(m, key) THEN MapDelete(m, key) ELSE m
             m2 == MapSet(m1, key, val)
         IN  IF Len(m2) > max THEN MapDelete(m2, m2[Len(m2)].key) ELSE m2

\* mutant: a key that is present is overwritten in place
LRU_set_NoDelete(max, m, key, val) ==
    IF max <= 0 THEN m
    ELSE LET m2 == MapSet(m, key, val)
         IN  IF Len(m2) > max THEN MapDelete(m2, m2[1].key) ELSE m2

\* mutant: a new key is not stored when the cache is full
LRU_set_DropWhenFull(max, m, key, val) ==
    IF max <= 0 THEN m
    ELSE IF ~MapHas(m, key) /\ Len(m) >= max THEN m
    ELSE MapSet(MapDelete(m, key), key, val)

LRU_set(max, m, key, val) ==
    IF max <= 0 THEN m
    ELSE LET m1 == IF MapHas(m, key) THEN MapDelete(m, key) ELSE m
             m2 == MapSet(m1, key, val)
         IN  IF Len(m2) > max THEN MapDelete(m2, m2[1].key) ELSE m2

-----------------------------------------------------------------------------
(* Strings *)

WhiteSpace == {9, 10, 11, 12, 13, SP}

RECURSIVE TrimStart(_)
TrimStart(s) ==
    IF s # <<>> /\ Head(s) \in WhiteSpace THEN TrimStart(Tail(s)) ELSE s

RECURSIVE TrimEnd(_)
TrimEnd(s) ==
    IF s # <<>> /\ s[Len(s)] \in WhiteSpace
    THEN TrimEnd(SubSeq(s, 1, Len(s) - 1)) ELSE s

\* String.prototype.trim
Trim(s) == TrimEnd(TrimStart(s))

\* String.prototype.slice(0, n) for n >= 0
Slice0(s, n) == SubSeq(s, 1, Min(n, Len(s)))

\* decimal digits of a natural, as template literals print it
RECURSIVE Digits(_)
Digits(n) ==
    IF n < 10 THEN <<ZERO + n>> ELSE Append(Digits(n \div 10), ZERO + (n % 10))

-----------------------------------------------------------------------------
(* fnv1a: 32-bit FNV-1a.  A 32-bit word is kept as two 16-bit halves. *)

RECURSIVE Xor(_, _)
Xor(a, b) ==
    IF a = 0 THEN b
    ELSE IF b = 0 THEN a
    ELSE ((a + b) % 2) + 2 * Xor(a \div 2, b \div 2)

\* 2166136261 = 0x811C9DC5
FnvOffset == [hi |-> 33052, lo |-> 40389]

\* Math.imul(h, 16777619), 16777619 = 2^24 + 403
Imul16777619(h) ==
    LET p == h.lo * 403 IN
    [hi |-> (h.hi * 403 + (p \div 65536) + (h.lo % 256) * 256) % 65536,
     lo |-> p % 65536]

RECURSIVE FnvLoop(_, _, _)
FnvLoop(h, str, i) ==
    IF i > Len(str) THEN h
    ELSE FnvLoop(Imul16777619([hi |-> h.hi, lo |-> Xor(h.lo, str[i])]),
                 str, i + 1)

fnv1a(str) == FnvLoop(FnvOffset, str, 1)

\* decimal digits of the unsigned 32-bit word (h >>> 0 printed in a template)
RECURSIVE Digits32(_)
Digits32(h) ==
    IF h.hi = 0 THEN Digits(h.lo)
    ELSE LET r == (h.hi % 10) * 65536 + h.lo
             q == [hi |-> h.hi \div 10, lo |-> r \div 10]
         IN  Append(Digits32(q), ZERO + (r % 10))

-----------------------------------------------------------------------------
(* The /classify handler, step by step *)

\* req.body.topN || 1 ; an absent topN is written 0
EffectiveTopN(topN) == IF topN = 0 THEN 1 ELSE topN

Normalize(b, maxChars, raw) ==
    IF b = "server" THEN Slice0(Trim(raw), maxChars) ELSE Trim(raw)

\* mutant: the short-text test is off by one
IsFastFail_OffByOne(minLen, text) == minLen > 0 /\ Len(text) < minLen - 1

IsFastFail(minLen, text) == minLen > 0 /\ Len(text) < minLen

\* mutant: the empty-input check comes before the readiness check
Path_EmptyFirst(ident, minLen, text) ==
    IF text = <<>> THEN "empty"
    ELSE IF ident = "null" THEN "notReady"
    ELSE IF IsFastFail(minLen, text) THEN "fastFail"
    ELSE "lookup"

\* mutant: the check for an empty text is missing
Path_NoEmptyCheck(ident, minLen, text) ==
    IF ident = "null" THEN "notReady"
    ELSE IF IsFastFail(minLen, text) THEN "fastFail"
    ELSE "lookup"

\* the early returns of the handler, in source order
Path(ident, minLen, text) ==
    IF ident = "null" THEN "notReady"
    ELSE IF text = <<>> THEN "empty"
    ELSE IF IsFastFail(minLen, text) THEN "fastFail"
    ELSE "lookup"

Und == [language |-> "und", probability |-> 0, is_reliable |-> FALSE,
        proportion |-> 0]

\* a JSON object is kind "object" with its one record, an array is kind "array"
Single(r) == [kind |-> "object", items |-> <<r>>]
Ranked(rs) == [kind |-> "array", items |-> rs]

FastFailCld3(b, topN) ==
    IF b = "server"
    THEN IF topN = 1 THEN Single(Und) ELSE Ranked(<<>>)
    ELSE Single(Und)

\* mutant: the key does not carry topN
CacheKey_NoTopN(b, topN, text) ==
    IF b = "server"
    THEN Digits32(fnv1a(text)) \o <<COLON>> \o Digits(Len(text))
    ELSE text

CacheKey(b, topN, text) ==
    IF b = "server"
    THEN Digits(topN) \o <<COLON>> \o Digits32(fnv1a(text)) \o <<COLON>>
            \o Digits(Len(text))
    ELSE IF topN = 1 THEN text ELSE Digits(topN) \o <<NUL>> \o text

\* the detector is an external capability: any of its possible answers
Lang(code) == [language |-> code, probability |-> 98, is_reliable |-> TRUE,
               proportion |-> 100]
Ranking == <<Lang("en"), Lang("pl"), Lang("de"), Lang("fr"), Lang("es")>>

DetectorResults(topN) ==
    IF topN = 1
    THEN {Single(Lang("en")), Single(Lang("pl"))}
    ELSE {Ranked(SubSeq(Ranking, 1, k)) : k \in {topN - 1, topN}}

\* the detector call raises an exception instead of returning
DetectorThrows == [kind |-> "throw", items |-> <<>>]

-----------------------------------------------------------------------------
(* Unit-level exercise of the LRU class: any sequence of get and set *)

LRUKeys == {<<CH_a + i>> : i \in 0..(NumKeys - 1)}
LRUVals == {UNDEFINED, [v |-> 1], [v |-> 2]}
NoKey == <<>>
NoOp == [name |-> "none", key |-> NoKey, val |-> UNDEFINED, ret |-> UNDEFINED,
         evicted |-> {}, afterHit |-> NoKey, present |-> FALSE]
NoRequest == [route |-> "none"]

\* ghost: move key to the most-recent end of the access order
Touch(r, key) == Append(SelectSeq(r, LAMBDA k : k # key), key)

Pos(r, key) == CHOOSE i \in 1..Len(r) : r[i] = key

\* the key the immediately preceding call read with a get that found it
JustRead == IF op.name = "get" /\ op.ret # UNDEFINED THEN op.key ELSE NoKey

Configs ==
    /\ build \in {"server", "part_000"}
    /\ CACHE_MAX \in -1..MaxCacheMax
    /\ MIN_LEN \in {0, MaxMinLen}
    /\ MAX_INPUT_CHARS = MaxInputChars

ConfigUnchanged == UNCHANGED <<build, CACHE_MAX, MIN_LEN, MAX_INPUT_CHARS>>

InitLRU ==
    /\ build = "server"
    /\ CACHE_MAX \in -1..MaxCap
    /\ MIN_LEN = 0
    /\ MAX_INPUT_CHARS = MaxInputChars
    /\ cache = <<>>
    /\ identifier = "null"
    /\ pc = "unit"
    /\ last = NoRequest
    /\ shutdownLog = <<>>
    /\ origin = {}
    /\ op = NoOp
    /\ recency = <<>>

LRUGetOp(key) ==
    LET r == LRU_get(cache, key) IN
    /\ cache' = r.map
    /\ op' = [name |-> "get", key |-> key, val |-> UNDEFINED, ret |-> r.ret,
              evicted |-> MapKeys(cache) \ MapKeys(r.map), afterHit |-> JustRead,
              present |-> MapHas(cache, key)]
    /\ recency' = IF r.ret # UNDEFINED THEN Touch(recency, key) ELSE recency
    /\ ConfigUnchanged
    /\ UNCHANGED <<identifier, pc, last, shutdownLog, origin>>

LRUSetOp(key, val) ==
    LET m == LRU_set(CACHE_MAX, cache, key, val) IN
    /\ cache' = m
    /\ op' = [name |-> "set", key |-> key, val |-> val, ret |-> UNDEFINED,
              evicted |-> (MapKeys(cache) \cup {key}) \ MapKeys(m),
              afterHit |-> JustRead, present |-> MapHas(cache, key)]
    /\ recency' = Touch(recency, key)
    /\ ConfigUnchanged
    /\ UNCHANGED <<identifier, pc, last, shutdownLog, origin>>

NextLRU ==
    \/ \E key \in LRUKeys : LRUGetOp(key)
    \/ \E key \in LRUKeys, val \in LRUVals : LRUSetOp(key, val)

SpecLRU == InitLRU /\ [][NextLRU]_vars

-----------------------------------------------------------------------------
(* The running service *)

\* request bodies that pass the schema: text of length >= 1, topN absent
\* (written 0) or an integer from 1 up
\* two texts of equal length with the same fnv1a value, 3118491066
FnvTwinA == <<9888, 97>>
FnvTwinB == <<34211, 38668>>

Texts == { <<SP>>,
           <<SP, CH_a, SP>>,
           FnvTwinA,
           FnvTwinB,
           Digits(MaxTopN) \o <<NUL>> \o FnvTwinA }
TopNs == 0..MaxTopN

ErrorBody(msg) == [error |-> msg]
OkBody(flag) == [ok |-> flag]
ClassifyBody(len, cld3) == [input_len |-> len, cld3 |-> cld3]
NoBody == [none |-> TRUE]

\* what the client of the last request saw, and what the handler did for it;
\* status 0 is a connection that nobody accepted
Outcome(route, topN, raw, text, status, body, path, probed, invoked) ==
    [route |-> route, topN |-> topN, raw |-> raw, text |-> text,
     status |-> status, body |-> body,
     path |-> path, probed |-> probed, invoked |-> invoked,
     ready |-> identifier # "null",
     closing |-> shutdownLog # <<>>,
     disposed |-> \E i \in 1..Len(shutdownLog) :
                     shutdownLog[i] \in {"dispose", "disposeThrew"}]

Init ==
    /\ Configs
    /\ cache = <<>>
    /\ identifier = "null"
    /\ pc = "init"
    /\ last = NoRequest
    /\ shutdownLog = <<>>
    /\ origin = {}
    /\ op = NoOp
    /\ recency = <<>>

\* await initDetector() settles: the handle is created; the routes and the
\* signal handlers are registered in the same turn and app.listen() is called
initDetector ==
    /\ pc = "init"
    /\ identifier' = "handle"
    /\ pc' = "registering"
    /\ ConfigUnchanged
    /\ UNCHANGED <<cache, last, shutdownLog, origin, op, recency>>

\* loadModule() rejects: the top-level await throws and the process ends
initDetectorFails ==
    /\ pc = "init"
    /\ pc' = "crashed"
    /\ ConfigUnchanged
    /\ UNCHANGED <<cache, identifier, last, shutdownLog, origin, op, recency>>

\* await app.listen() settles: the port is bound
listen ==
    /\ pc = "registering"
    /\ shutdownLog = <<>>
    /\ pc' = "listening"
    /\ ConfigUnchanged
    /\ UNCHANGED <<cache, identifier, last, shutdownLog, origin, op, recency>>

\* a client connects while no socket is bound
Refused(route, topN, raw) ==
    /\ pc \in {"init", "registering"}
    /\ last' = Outcome(route, topN, raw, raw, 0, NoBody, "refused",
                       FALSE, FALSE)
    /\ ConfigUnchanged
    /\ UNCHANGED <<cache, identifier, pc, shutdownLog, origin, op, recency>>

health ==
    /\ last' = Outcome("health", 0, <<>>, <<>>, 200, OkBody(TRUE), "health",
                       FALSE, FALSE)
    /\ ConfigUnchanged
    /\ UNCHANGED <<cache, identifier, pc, shutdownLog, origin, op, recency>>

ready ==
    /\ last' = IF identifier = "null"
               THEN Outcome("ready", 0, <<>>, <<>>, 503, OkBody(FALSE),
                            "notReady", FALSE, FALSE)
               ELSE Outcome("ready", 0, <<>>, <<>>, 200, OkBody(TRUE),
                            "ready", FALSE, FALSE)
    /\ ConfigUnchanged
    /\ UNCHANGED <<cache, identifier, pc, shutdownLog, origin, op, recency>>

\* ghost: forget the origin of entries that are no longer cached
OriginAfter(o, m) == {x \in o : MapHas(m, x.key)}

\* the POST /classify handler
classify(reqTopN, raw) ==
    LET topN == EffectiveTopN(reqTopN)
        text == Normalize(build, MAX_INPUT_CHARS, raw)
        path == Path(identifier, MIN_LEN, text)
        key  == CacheKey(build, topN, text)
        got  == LRU_get(cache, key)
    IN
    /\ ConfigUnchanged
    /\ UNCHANGED <<identifier, pc, shutdownLog, op, recency>>
    /\ CASE path = "notReady" ->
              /\ last' = Outcome("classify", topN, raw, raw, 503,
                                 ErrorBody("Detector not ready yet."),
                                 path, FALSE, FALSE)
              /\ UNCHANGED <<cache, origin>>
         [] path = "empty" ->
              /\ last' = Outcome("classify", topN, raw, text, 400,
                                 ErrorBody("Empty 'text'."),
                                 path, FALSE, FALSE)
              /\ UNCHANGED <<cache, origin>>
         [] path = "fastFail" ->
              /\ last' = Outcome("classify", topN, raw, text, 200,
                                 ClassifyBody(Len(text),
                                              FastFailCld3(build, topN)),
                                 path, FALSE, FALSE)
              /\ UNCHANGED <<cache, origin>>
         [] path = "lookup" /\ got.ret # UNDEFINED ->
              /\ last' = Outcome("classify", topN, raw, text, 200, got.ret,
                                 "hit", TRUE, FALSE)
              /\ cache' = got.map
              /\ origin' = OriginAfter(origin, got.map)
         [] path = "lookup" /\ got.ret = UNDEFINED ->
              \E result \in DetectorResults(topN) \cup {DetectorThrows} :
                  IF result = DetectorThrows
                  THEN \* the exception leaves the handler: reply 500
                       /\ last' = Outcome("classify", topN, raw, text, 500,
                                          ErrorBody("Internal Server Error"),
                                          "threw", TRUE, TRUE)
                       /\ cache' = got.map
                       /\ origin' = OriginAfter(origin, got.map)
                  ELSE LET out == ClassifyBody(Len(text), result)
                           m == LRU_set(CACHE_MAX, got.map, key, out)
                       IN
                       /\ last' = Outcome("classify", topN, raw, text, 200,
                                          out, "miss", TRUE, TRUE)
                       /\ cache' = m
                       /\ origin' = OriginAfter(
                              {x \in origin : x.key # key}
                                 \cup {[key |-> key, topN |-> topN,
                                        text |-> text]}, m)

-----------------------------------------------------------------------------
(* Termination signals and shutdown *)

Count(log, events) == Cardinality({i \in 1..Len(log) : log[i] \in events})

disposeCalls == Count(shutdownLog, {"dispose", "disposeThrew"})

\* mutant: the detector is disposed before the close has settled
ShutdownTail_DisposeFirst(closed, disposedAs) == <<disposedAs, closed, "exit">>

\* what shutdown does once `await app.close()` has settled: the finally
\* block disposes the detector, swallowing an exception, then exits
ShutdownTail(closed, disposedAs) == <<closed, disposedAs, "exit">>

\* mutant: process.exit(0) is missing
AfterExit_KeepsRunning(p) == p

\* process.exit(0)
AfterExit(p) == "exited"

\* SIGTERM or SIGINT before the handlers are registered: default disposition
killed(sig) ==
    /\ pc = "init"
    /\ pc' = "killed"
    /\ ConfigUnchanged
    /\ UNCHANGED <<cache, identifier, last, shutdownLog, origin, op, recency>>

\* mutant: the detector is disposed as soon as the signal arrives
signal_DisposesAtOnce(sig) ==
    /\ pc \in {"registering", "listening"}
    /\ Count(shutdownLog, {"close"}) < MaxSignals
    /\ shutdownLog' = shutdownLog \o <<"close", "dispose">>
    /\ ConfigUnchanged
    /\ UNCHANGED <<cache, identifier, pc, last, origin, op, recency>>

\* process.on(sig, () => shutdown(sig)): shutdown runs up to await app.close()
signal(sig) ==
    /\ pc \in {"registering", "listening"}
    /\ Count(shutdownLog, {"close"}) < MaxSignals
    /\ shutdownLog' = Append(shutdownLog, "close")
    /\ ConfigUnchanged
    /\ UNCHANGED <<cache, identifier, pc, last, origin, op, recency>>

\* the close awaited by one shutdown call settles and that call runs on
shutdown(closed, disposedAs) ==
    /\ pc \in {"registering", "listening"}
    /\ Count(shutdownLog, {"exit"}) < Count(shutdownLog, {"close"})
    /\ shutdownLog' = shutdownLog \o ShutdownTail(closed, disposedAs)
    /\ pc' = AfterExit(pc)
    /\ ConfigUnchanged
    /\ UNCHANGED <<cache, identifier, last, origin, op, recency>>

Signals == {"SIGTERM", "SIGINT"}

Next ==
    \/ initDetector
    \/ initDetectorFails
    \/ listen
    \/ \E route \in {"health", "ready"} : Refused(route, 0, <<>>)
    \/ \E topN \in TopNs, raw \in Texts : Refused("classify", topN, raw)
    \/ pc = "listening" /\ health
    \/ pc = "listening" /\ ready
    \/ \E topN \in TopNs, raw \in Texts : pc = "listening" /\ classify(topN, raw)

\* the service while it serves requests; shutdown never touches the cache and
\* no handler touches the shutdown path, which SpecShutdown adds
Spec == Init /\ [][Next]_vars

\* the requests that are still served while a shutdown is under way
ShutdownTexts == { <<SP>>, <<CH_a, CH_a>> }

NextShutdown ==
    \/ initDetector
    \/ initDetectorFails
    \/ listen
    \/ \E route \in {"health", "ready"} : Refused(route, 0, <<>>)
    \/ \E topN \in TopNs, raw \in ShutdownTexts :
            Refused("classify", topN, raw)
    \/ pc = "listening" /\ health
    \/ pc = "listening" /\ ready
    \/ \E topN \in TopNs, raw \in ShutdownTexts :
            pc = "listening" /\ classify(topN, raw)
    \/ \E sig \in Signals : killed(sig)
    \/ \E sig \in Signals : signal(sig)
    \/ \E closed \in {"closeOk", "closeThrew"},
          disposedAs \in {"dispose", "disposeThrew"} :
            shutdown(closed, disposedAs)

\* the service with termination signals
SpecShutdown == Init /\ [][NextShutdown]_vars

-----------------------------------------------------------------------------
(* The handlers as units: the detector handle is an input of the handler,   *)
(* so the branch for a handle that is still null can be exercised.          *)

InitHandler ==
    /\ Configs
    /\ cache = <<>>
    /\ identifier \in {"null", "handle"}
    /\ pc = "unit"
    /\ last = NoRequest
    /\ shutdownLog = <<>>
    /\ origin = {}
    /\ op = NoOp
    /\ recency = <<>>

NextHandler ==
    \/ health
    \/ ready
    \/ \E topN \in TopNs, raw \in Texts : classify(topN, raw)

SpecHandler == InitHandler /\ [][NextHandler]_vars

-----------------------------------------------------------------------------
(* Claims about the LRU class, checked under SpecLRU *)

\* the step is a set of an absent key into a cache that is full
C1_Overflow ==
    /\ op'.name = "set"
    /\ CACHE_MAX >= 1
    /\ ~MapHas(cache, op'.key)
    /\ Len(cache) = CACHE_MAX

\* exactly one entry goes, it is the least recently accessed one, and every
\* other entry stays with its value
C1_EvictsLeastRecent ==
    C1_Overflow =>
        \E e \in MapKeys(cache) :
            /\ MapKeys(cache') = (MapKeys(cache) \ {e}) \cup {op'.key}
            /\ \A o \in MapKeys(cache) \ {e} :
                   /\ Pos(recency, e) < Pos(recency, o)
                   /\ MapGet(cache', o) = MapGet(cache, o)

\* the key read by the immediately preceding found get survives the eviction
C1_ReadProtected ==
    (C1_Overflow /\ JustRead # NoKey) => MapHas(cache', JustRead)

\* C1 (as stated): for every capacity c >= 1, a set that overflows evicts
\* exactly the entry whose last access (set, or get that found it) is the
\* oldest, every other entry stays, and the key just read with get is not
\* the one removed.
C1_Claim == [][C1_EvictsLeastRecent /\ C1_ReadProtected]_vars

\* C1 (amended): the eviction rule holds for every capacity c >= 1; the key
\* just read with get survives the eviction of the next set when c >= 2.
C1_Amended ==
    [][C1_EvictsLeastRecent /\ (CACHE_MAX >= 2 => C1_ReadProtected)]_vars

\* an overflowing set right after a found get, the key read is still cached
C1_Witness ==
    /\ CACHE_MAX >= 2
    /\ op.name = "set"
    /\ op.evicted # {}
    /\ op.afterHit # NoKey
    /\ MapHas(cache, op.afterHit)

\* C2 (as stated): the cache never holds more entries than its configured
\* capacity.
C2_Claim == Len(cache) <= CACHE_MAX

\* C2 (amended): the cache never holds more entries than its configured
\* capacity when that is non-negative, and none when it is negative.
C2_Amended == Len(cache) <= (IF CACHE_MAX > 0 THEN CACHE_MAX ELSE 0)

\* a full cache right after a set that evicted
C2_Witness ==
    /\ CACHE_MAX >= 1
    /\ op.name = "set"
    /\ op.evicted # {}
    /\ Len(cache) = CACHE_MAX

\* C3: with a capacity of 0 or less, set stores nothing, the cache stays
\* empty and every get returns absent.
C3_DisabledCacheMisses ==
    CACHE_MAX <= 0 =>
        /\ cache = <<>>
        /\ (op.name = "get" => op.ret = UNDEFINED)

\* a get of a key that an earlier set was called with, capacity <= 0
C3_Witness ==
    /\ CACHE_MAX <= 0
    /\ op.name = "get"
    /\ \E i \in 1..Len(recency) : recency[i] = op.key


-----------------------------------------------------------------------------
(* Claims about the /classify pipeline *)

\* two consecutive /classify requests, both handled, same (topN, text)
C4_Repeat ==
    /\ last.route = "classify" /\ last.status # 0
    /\ last'.route = "classify" /\ last'.status # 0
    /\ last.status # 500
    /\ last'.topN = last.topN
    /\ last'.text = last.text

C4_SameAnswerNoDetector ==
    /\ last'.status = last.status
    /\ last'.body = last.body
    /\ ~last'.invoked

C5_ShortText ==
    /\ last'.route = "classify"
    /\ last'.status = 200
    /\ MIN_LEN > 0
    /\ Len(last'.text) < MIN_LEN

\* C5: a /classify request whose normalized text is shorter than a positive
\* MIN_LEN neither reads nor writes the cache and does not invoke the
\* detector; cache contents and order are unchanged by it.
C5_FastFailBypassesCache ==
    [][C5_ShortText =>
          /\ cache' = cache
          /\ ~last'.probed
          /\ ~last'.invoked]_vars

\* a fast-failed request while the cache holds an entry
C5_Witness ==
    /\ last.route = "classify"
    /\ last.status = 200
    /\ MIN_LEN > 0
    /\ Len(last.text) < MIN_LEN
    /\ cache # <<>>

\* C6: the fast-fail response carries the "und" record for topN = 1 and an
\* empty ranked sequence for every topN > 1.
C6_Claim ==
    (/\ last.route = "classify"
     /\ last.status = 200
     /\ MIN_LEN > 0
     /\ Len(last.text) < MIN_LEN)
    => last.body = ClassifyBody(Len(last.text),
                                IF last.topN = 1 THEN Single(Und)
                                ELSE Ranked(<<>>))

\* C7: while identifier is null, every /classify request handled is answered
\* 503 "Detector not ready yet." without a cache probe or a detector call,
\* also when its text is blank or shorter than MIN_LEN.
C7_NotReadyRejectedFirst ==
    (last.route = "classify" /\ last.status # 0 /\ ~last.ready) =>
        /\ last.status = 503
        /\ last.body = ErrorBody("Detector not ready yet.")
        /\ ~last.probed
        /\ ~last.invoked
        /\ cache = <<>>

\* a blank text sent while identifier is null
C7_Witness ==
    /\ last.route = "classify"
    /\ ~last.ready
    /\ last.status = 503
    /\ Trim(last.text) = <<>>

\* C8: a /classify or /ready request that arrives before initialization has
\* completed is answered 503; once it has completed /ready is answered 200
\* and /classify is served.
C8_Claim ==
    /\ (last.route \in {"classify", "ready"} /\ ~last.ready)
          => last.status = 503
    /\ (last.route = "ready" /\ last.ready) => last.status = 200
    /\ (last.route = "classify" /\ last.ready) => last.status \in {200, 400}

\* C9: GET /health is answered 200 {ok: true} in every state of the detector
\* lifecycle, also while the detector is uninitialized.
C9_Claim ==
    last.route = "health" =>
        /\ last.status = 200
        /\ last.body = OkBody(TRUE)

\* the texts that reach the cache-key construction
KeyedTexts ==
    {t \in {Normalize(build, MAX_INPUT_CHARS, raw) : raw \in Texts} :
        t # <<>>}

C10_KeysDifferByTopN ==
    \A n1, n2 \in 1..MaxTopN : \A t1, t2 \in KeyedTexts :
        n1 # n2 => CacheKey(build, n1, t1) # CacheKey(build, n2, t2)

C10_ShapeFollowsTopN ==
    (last.route = "classify" /\ last.status = 200) =>
        IF last.topN = 1
        THEN last.body.cld3.kind = "object"
        ELSE /\ last.body.cld3.kind = "array"
             /\ Len(last.body.cld3.items) <= last.topN

\* C10: requests with different topN never map to the same cache key, for any
\* texts, so a topN = 1 request always gets a single record and a topN > 1
\* request a sequence of at most topN records.
C10_Claim == C10_KeysDifferByTopN /\ C10_ShapeFollowsTopN

\* the step is a /classify request answered from the cache
C11_Hit == last'.route = "classify" /\ last'.path = "hit"

\* the requests whose stored response the request of this step can be given
C11_Source ==
    {x \in origin : x.key = CacheKey(build, last'.topN, last'.text)}

\* C11 (as stated): requests with equal (topN, text) share a cache key and
\* requests with different normalized text never do, so a cache hit returns
\* only a response that the detector computed for that same text.
C11_Claim ==
    [][C11_Hit =>
          /\ C11_Source # {}
          /\ \A x \in C11_Source : x.text = last'.text]_vars

\* C11 (amended): requests with equal (topN, text) share a cache key, and a
\* cache hit returns, unchanged, the response stored for a request with the
\* same key.  With the digest key that request had the same topN, a text of
\* the same length and the same 32-bit FNV-1a value, not necessarily the same
\* text; with the exact key it had the same text whenever it had the same
\* topN.
C11_Amended ==
    [][C11_Hit =>
          /\ C11_Source # {}
          /\ last'.body = MapGet(cache, CacheKey(build, last'.topN, last'.text))
          /\ \A x \in C11_Source :
                 /\ x.key = CacheKey(build, x.topN, x.text)
                 /\ build = "server" =>
                        /\ x.topN = last'.topN
                        /\ Len(x.text) = Len(last'.text)
                        /\ fnv1a(x.text) = fnv1a(last'.text)
                 /\ (build # "server" /\ x.topN = last'.topN) =>
                        x.text = last'.text]_vars

\* a hit of the digest key on an entry that was computed for another text
C11_Witness ==
    /\ build = "server"
    /\ last.route = "classify"
    /\ last.path = "hit"
    /\ \E x \in origin :
           /\ x.key = CacheKey(build, last.topN, last.text)
           /\ x.text # last.text
           /\ x.topN = last.topN

\* C15: for every 200 response of /classify, from the fast-fail, from a cache
\* hit or from a detector call, input_len is the length of the normalized
\* text of that same request.
C15_Claim ==
    (last.route = "classify" /\ last.status = 200) =>
        last.body.input_len = Len(last.text)

\* the step is a /classify request answered with an error
C16_Error == last'.route = "classify" /\ last'.status \in {400, 503}

\* C16: a /classify request handled while the detector is not ready (503) or
\* whose text is empty after trim and truncation (400) ends in that error
\* response; it leaves cache contents, cache order and the detector handle
\* unchanged, does not probe the cache and does not invoke the detector.
C16_ErrorsLeaveStateAlone ==
    [][/\ C16_Error =>
             /\ cache' = cache
             /\ identifier' = identifier
             /\ ~last'.probed
             /\ ~last'.invoked
       /\ (/\ last'.route = "classify"
           /\ last'.status # 0
           /\ \/ identifier = "null"
              \/ Normalize(build, MAX_INPUT_CHARS, last'.raw) = <<>>)
          => C16_Error]_vars

\* a blank text answered 400 while the cache holds an entry
C16_Witness ==
    /\ last.route = "classify"
    /\ last.status = 400
    /\ last.ready
    /\ cache # <<>>

\* C17: the text passed to the detector and used for the cache key has at
\* most MAX_INPUT_CHARS characters, and the input_len of every 200 response
\* is at most MAX_INPUT_CHARS, whatever the length of the submitted text.
C17_Claim ==
    (last.route = "classify" /\ last.status # 0) =>
        /\ last.probed => Len(last.text) <= MAX_INPUT_CHARS
        /\ last.status = 200 => last.body.input_len <= MAX_INPUT_CHARS

\* the step is a set of a key that is present, capacity >= 1
C18_SetPresent ==
    /\ op'.name = "set"
    /\ CACHE_MAX >= 1
    /\ MapHas(cache, op'.key)

\* C18: LRU.set on a key that is already present (capacity >= 1) replaces
\* its value, makes the key the most recently used entry, leaves the number
\* of entries unchanged, evicts nothing and keeps the relative order of all
\* other entries.
C18_SetPresentKeyRefreshes ==
    [][C18_SetPresent =>
          /\ MapHas(cache', op'.key)
          /\ MapGet(cache', op'.key) = op'.val
          /\ cache'[Len(cache')].key = op'.key
          /\ Len(cache') = Len(cache)
          /\ op'.evicted = {}
          /\ MapDelete(cache', op'.key) = MapDelete(cache, op'.key)]_vars

\* a set of a present key right after a found get of another key, which had
\* left that other key at the recent end
C18_Witness ==
    /\ CACHE_MAX >= 2
    /\ op.name = "set"
    /\ op.present
    /\ op.afterHit \notin {NoKey, op.key}
    /\ Len(cache) >= 2
    /\ cache[Len(cache)].key = op.key
    /\ cache[Len(cache) - 1].key = op.afterHit

\* the step is a /classify request whose detector call threw
C19_Threw ==
    /\ last'.route = "classify"
    /\ last'.status = 500
    /\ last'.path = "threw"

\* the step repeats the request of the previous step, whose detector call
\* threw
C19_RepeatAfterThrow ==
    /\ last.route = "classify"
    /\ last.path = "threw"
    /\ last'.route = "classify"
    /\ last'.status # 0
    /\ last'.topN = last.topN
    /\ last'.text = last.text

\* C19: if the detector call throws during a /classify request that missed
\* the cache, no entry is stored for that key and the cache contents and
\* order are as before the request, so the identical request that follows
\* misses again and invokes the detector again.
C19_ThrowStoresNothing ==
    [][/\ C19_Threw =>
             /\ cache' = cache
             /\ ~MapHas(cache', CacheKey(build, last'.topN, last'.text))
       /\ C19_RepeatAfterThrow =>
             /\ last'.path \in {"miss", "threw"}
             /\ last'.invoked]_vars

\* a detector call that threw while the cache holds an entry of another key
C19_Witness ==
    /\ CACHE_MAX >= 1
    /\ last.route = "classify"
    /\ last.status = 500
    /\ cache # <<>>

C20_Key == CacheKey(build, last'.topN, last'.text)

C20_Capacity == IF CACHE_MAX > 0 THEN CACHE_MAX ELSE 0

-----------------------------------------------------------------------------
(* Claims about shutdown, checked under SpecShutdown *)

C12_Settled == {"closeOk", "closeThrew"}
C12_Disposals == {"dispose", "disposeThrew"}

\* C12: on a termination signal shutdown first closes the server and waits
\* for the close to settle, then attempts to dispose the detector whether the
\* close succeeded or threw, then terminates the process; the process
\* terminates also when dispose throws, and dispose is never attempted before
\* the close has settled.
C12_ShutdownOrder ==
    /\ shutdownLog # <<>> => shutdownLog[1] = "close"
    /\ \A i \in 1..Len(shutdownLog) :
          /\ shutdownLog[i] \in C12_Settled =>
                /\ \E j \in 1..(i - 1) : shutdownLog[j] = "close"
                /\ i < Len(shutdownLog)
                /\ shutdownLog[i + 1] \in C12_Disposals
          /\ shutdownLog[i] \in C12_Disposals =>
                /\ i > 1
                /\ shutdownLog[i - 1] \in C12_Settled
                /\ i < Len(shutdownLog)
                /\ shutdownLog[i + 1] = "exit"
          /\ shutdownLog[i] = "exit" =>
                /\ i > 1
                /\ shutdownLog[i - 1] \in C12_Disposals
    /\ pc = "exited" <=> Count(shutdownLog, {"exit"}) > 0

\* the process has exited although both the close and the dispose threw
C12_Witness ==
    /\ pc = "exited"
    /\ Count(shutdownLog, {"closeThrew"}) = 1
    /\ Count(shutdownLog, {"disposeThrew"}) = 1

\* C13: for any number and interleaving of SIGTERM and SIGINT deliveries,
\* also a second signal while the first shutdown still awaits the close, the
\* detector is disposed exactly once in the lifetime of the process, and only
\* by the shutdown path; a process that ends before the detector exists has
\* nothing to dispose.
C13_DisposedOnce ==
    /\ disposeCalls <= 1
    /\ pc = "exited" => disposeCalls = 1
    /\ disposeCalls = 1 =>
          /\ pc = "exited"
          /\ identifier = "handle"
          /\ Count(shutdownLog, {"close"}) >= 1
    /\ pc \in {"init", "crashed", "killed"} =>
          /\ identifier = "null"
          /\ shutdownLog = <<>>

\* the process has exited after two signals, each of which started a shutdown
C13_Witness ==
    /\ pc = "exited"
    /\ Count(shutdownLog, {"close"}) >= 2
    /\ disposeCalls = 1

\* C14: once the detector has been disposed it is never invoked again: no
\* /classify request, also none in flight or accepted while shutdown was
\* running, is handled after dispose.
C14_NoUseAfterDispose ==
    /\ (last.route = "classify" /\ last.status # 0) => ~last.disposed
    /\ last.route \in {"health", "ready"} => ~last.disposed
    /\ disposeCalls > 0 => shutdownLog[Len(shutdownLog)] = "exit"

\* the last request called the detector while a shutdown was awaiting the
\* close, and the process has since disposed the detector and exited
C14_Witness ==
    /\ last.route = "classify"
    /\ last.invoked
    /\ last.closing
    /\ disposeCalls = 1

====
